---------------------------- MODULE Spec2Model ----------------------------
(***************************************************************************)
(* GridMap of grid_coverage_planner/core/grid_map.py as a state machine.   *)
(*                                                                         *)
(* g    : the GridMap instance (rows, cols, resolution, origin, data,      *)
(*        metadata)                                                        *)
(* fs   : the file system below the save directory                         *)
(* last : the operation performed last, its arguments and what it          *)
(*        returned or raised                                               *)
(*                                                                         *)
(* World coordinates and the resolution are exact integers (a fixed-point  *)
(* unit); floating-point rounding is outside the model.                    *)
(***************************************************************************)
EXTENDS Integers, Sequences, FiniteSets, TLC

VARIABLES g, fs, last

vars == <<g, fs, last>>

(* ------------------------------ bounds -------------------------------- *)
MaxRows == 2
MaxCols == 2
MaxCells == 4
MaxSavedCells == 2
MaxNbRows == 3
MaxNbCols == 3
MaxWorld == 4

(* ----------------------------- CellType ------------------------------- *)
NON_TRAVERSABLE == 0
TRAVERSABLE == 1
CUTTABLE == 2

CellType == {NON_TRAVERSABLE, TRAVERSABLE, CUTTABLE}

(* --------------------------- Python values ---------------------------- *)
PyTuple(items) == [kind |-> "tuple", items |-> items]

PyList(items) == [kind |-> "list", items |-> items]

PyNone == [kind |-> "None"]

Return(v) == [status |-> "return", value |-> v]

Raise(exc, msg) == [status |-> "raise", value |-> [exc |-> exc, msg |-> msg]]

InvalidPosition == Raise("ValueError", "Invalid position")

MissingCol == Raise("TypeError", "missing 1 required positional argument: 'col'")

\* int(a / b) for b > 0: Python's int() truncates toward zero
PyIntDiv(a, b) == IF a >= 0 THEN a \div b ELSE -((-a) \div b)

(* --------------------------- numpy arrays ----------------------------- *)
\* a 2-D uint8 array: shape and cells indexed from 0
NdArray(shape, cells) ==
    [kind |-> "ndarray", dtype |-> "uint8", shape |-> shape, cells |-> cells]

CellIndices(shape) == (0 .. shape[1] - 1) \X (0 .. shape[2] - 1)

NpFull(rows, cols, fill) ==
    NdArray(<<rows, cols>>, [rc \in CellIndices(<<rows, cols>>) |-> fill % 256])

\* numpy accepts an index i of an axis of length n iff -n <= i < n,
\* and a negative index counts from the end
NpAxisOk(n, i) == -n <= i /\ i < n

NpAxis(n, i) == IF i < 0 THEN i + n ELSE i

NpInBounds(a, row, col) == NpAxisOk(a.shape[1], row) /\ NpAxisOk(a.shape[2], col)

NpGetItem(a, row, col) ==
    a.cells[<<NpAxis(a.shape[1], row), NpAxis(a.shape[2], col)>>]

NpSetItem(a, row, col, v) ==
    [a EXCEPT !.cells[<<NpAxis(a.shape[1], row), NpAxis(a.shape[2], col)>>] = v % 256]

\* np.where(a == v): the row indices and the column indices of the matching
\* cells, each a 1-D array, scanned in row-major order
RECURSIVE NpWhereScan(_, _, _, _, _)
NpWhereScan(a, v, k, rs, cs) ==
    IF k = a.shape[1] * a.shape[2] THEN <<rs, cs>>
    ELSE LET r == k \div a.shape[2]
             c == k % a.shape[2]
         IN  IF a.cells[<<r, c>>] = v
             THEN NpWhereScan(a, v, k + 1, Append(rs, r), Append(cs, c))
             ELSE NpWhereScan(a, v, k + 1, rs, cs)

NpWhere(a, v) ==
    LET idx == NpWhereScan(a, v, 0, <<>>, <<>>)
    IN  PyTuple(<<[kind |-> "ndarray1", items |-> idx[1]],
                  [kind |-> "ndarray1", items |-> idx[2]]>>)

(* ------------------------------ GridMap ------------------------------- *)
GridMap_init(rows, cols, resolution, origin, default_cell_type) ==
    IF rows <= 0 \/ cols <= 0
    THEN Raise("ValueError", "Rows and columns must be greater than 0")
    ELSE IF resolution <= 0
    THEN Raise("ValueError", "Resolution must be greater than 0")
    ELSE IF origin.kind # "tuple" \/ Len(origin.items) # 2
    THEN Raise("ValueError", "Origin must be a tuple of two elements")
    ELSE Return([rows |-> rows,
                 cols |-> cols,
                 resolution |-> resolution,
                 origin |-> origin,
                 data |-> NpFull(rows, cols, default_cell_type),
                 metadata |-> [name |-> "",
                               description |-> "",
                               resolution |-> resolution,
                               origin |-> origin]])

\* a plausible slip: only the upper bounds are tested
is_valid_position_upper(m, row, col) == row < m.rows /\ col < m.cols

is_valid_position(m, row, col) ==
    0 <= row /\ row < m.rows /\ 0 <= col /\ col < m.cols

\* self.data[row, col] read on an array that may not have that index
DataRead(m, row, col) ==
    IF NpInBounds(m.data, row, col)
    THEN Return(NpGetItem(m.data, row, col))
    ELSE Raise("IndexError", "index is out of bounds")

get_cell(m, row, col) ==
    IF ~is_valid_position(m, row, col) THEN InvalidPosition
    ELSE DataRead(m, row, col)

\* the operations that assign: self is the instance afterwards
set_cell(m, row, col, cell_type) ==
    IF ~is_valid_position(m, row, col)
    THEN [self |-> m, ret |-> InvalidPosition]
    ELSE IF ~NpInBounds(m.data, row, col)
    THEN [self |-> m, ret |-> Raise("IndexError", "index is out of bounds")]
    ELSE [self |-> [m EXCEPT !.data = NpSetItem(m.data, row, col, cell_type)],
          ret |-> Return(PyNone)]

DataEquals(m, row, col, v) ==
    LET x == DataRead(m, row, col)
    IN  IF x.status = "raise" THEN x ELSE Return(x.value = v)

is_traversable(m, row, col) ==
    IF ~is_valid_position(m, row, col) THEN InvalidPosition
    ELSE DataEquals(m, row, col, TRAVERSABLE)

is_cuttable(m, row, col) == DataEquals(m, row, col, CUTTABLE)

is_non_traversable(m, row, col) == DataEquals(m, row, col, NON_TRAVERSABLE)

get_all_cells_of_type(m, cell_type) == Return(NpWhere(m.data, cell_type))

get_all_traversable_cells(m) == get_all_cells_of_type(m, TRAVERSABLE)

get_all_cuttable_cells(m) == get_all_cells_of_type(m, CUTTABLE)

get_all_non_traversable_cells(m) == get_all_cells_of_type(m, NON_TRAVERSABLE)

grid_to_world(m, row, col) ==
    Return(PyTuple(<<m.origin.items[1] + col * m.resolution,
                     m.origin.items[2] + row * m.resolution>>))

world_to_grid(m, x, y) ==
    Return(PyTuple(<<PyIntDiv(x - m.origin.items[1], m.resolution),
                     PyIntDiv(y - m.origin.items[2], m.resolution)>>))

(* ------------------------ neighbor enumeration ------------------------ *)
directions == <<-1, 0, 1>>

\* a plausible slip: "or" for "and"
is_center_or(dr, dc) == dr = 0 \/ dc = 0

is_center(dr, dc) == dr = 0 /\ dc = 0

\* the nested loops over dr and dc: k counts the iterations done
RECURSIVE neighbors_loop(_, _, _, _, _)
neighbors_loop(m, row, col, k, neighbors) ==
    IF k = Len(directions) * Len(directions) THEN neighbors
    ELSE LET dr == directions[(k \div Len(directions)) + 1]
             dc == directions[(k % Len(directions)) + 1]
             nr == row + dr
             nc == col + dc
         IN  IF is_center(dr, dc)
             THEN neighbors_loop(m, row, col, k + 1, neighbors)
             ELSE IF is_valid_position(m, nr, nc)
             THEN neighbors_loop(m, row, col, k + 1,
                                 Append(neighbors, PyTuple(<<nr, nc>>)))
             ELSE neighbors_loop(m, row, col, k + 1, neighbors)

get_neighbors(m, row, col) == Return(PyList(neighbors_loop(m, row, col, 0, <<>>)))

\* a call self.<predicate>(*argv): the predicates take (row, col)
call_predicate(m, predicate, argv) ==
    IF Len(argv) # 2 THEN MissingCol
    ELSE IF predicate = "is_traversable" THEN is_traversable(m, argv[1], argv[2])
    ELSE IF predicate = "is_cuttable" THEN is_cuttable(m, argv[1], argv[2])
    ELSE is_non_traversable(m, argv[1], argv[2])

\* [neighbor for neighbor in ns if self.<predicate>(neighbor)]
RECURSIVE neighbors_if(_, _, _, _, _)
neighbors_if(m, predicate, ns, i, kept) ==
    IF i > Len(ns) THEN Return(PyList(kept))
    ELSE LET t == call_predicate(m, predicate, <<ns[i]>>)
         IN  IF t.status = "raise" THEN t
             ELSE neighbors_if(m, predicate, ns, i + 1,
                               IF t.value THEN Append(kept, ns[i]) ELSE kept)

get_traversable_neighbors(m, row, col) ==
    neighbors_if(m, "is_traversable", get_neighbors(m, row, col).value.items, 1, <<>>)

get_cuttable_neighbors(m, row, col) ==
    neighbors_if(m, "is_cuttable", get_neighbors(m, row, col).value.items, 1, <<>>)

get_non_traversable_neighbors(m, row, col) ==
    neighbors_if(m, "is_non_traversable", get_neighbors(m, row, col).value.items, 1, <<>>)

(* ---------------------------- persistence ----------------------------- *)
NoDir == [kind |-> "absent"]

NoFile == [kind |-> "nofile"]

Truncated == [kind |-> "truncated"]

Dir(npy, json) == [kind |-> "dir", npy |-> npy, json |-> json]

\* np.save: dtype, shape and the cells in row-major order
NpSave(a) ==
    [kind |-> "npy", dtype |-> a.dtype, shape |-> a.shape,
     bytes |-> [k \in 1 .. a.shape[1] * a.shape[2] |->
                  a.cells[<<(k - 1) \div a.shape[2], (k - 1) % a.shape[2]>>]]]

NpLoad(f) ==
    NdArray(f.shape, [rc \in CellIndices(f.shape) |->
                        f.bytes[rc[1] * f.shape[2] + rc[2] + 1]])

\* json.dump writes a tuple as a JSON array; json.load reads an array as a list
JsonDump(md) ==
    [kind |-> "json",
     obj |-> [name |-> md.name, description |-> md.description,
              resolution |-> md.resolution, origin |-> md.origin.items]]

JsonLoad(f) ==
    [name |-> f.obj.name, description |-> f.obj.description,
     resolution |-> f.obj.resolution, origin |-> PyList(f.obj.origin)]

SavePath(dir_path, name) == <<dir_path, name>>

is_dir(fsys, path) == path \in DOMAIN fsys /\ fsys[path].kind = "dir"

\* a plausible slip: the directory test left to mkdir(exist_ok=True)
save_exist_ok(m, fsys, dir_path, io) ==
    LET save_path == SavePath(dir_path, m.metadata.name)
    IN  IF m.metadata.name = ""
        THEN [fs |-> fsys, ret |-> Raise("ValueError", "Grid map name is not set")]
        ELSE [fs |-> [fsys EXCEPT ![save_path] =
                         Dir(NpSave(m.data), JsonDump(m.metadata))],
              ret |-> Return(PyNone)]

\* io: whether the two writes succeed ("ok"), np.save fails ("npy_fails")
\* or the metadata write fails after np.save succeeded ("json_fails")
save(m, fsys, dir_path, io) ==
    LET save_path == SavePath(dir_path, m.metadata.name)
    IN  IF m.metadata.name = ""
        THEN [fs |-> fsys, ret |-> Raise("ValueError", "Grid map name is not set")]
        ELSE IF is_dir(fsys, save_path)
        THEN [fs |-> fsys,
              ret |-> Raise("ValueError", "Grid map directory already exists")]
        ELSE IF io = "npy_fails"
        THEN [fs |-> [fsys EXCEPT ![save_path] = Dir(NoFile, NoFile)],
              ret |-> Raise("OSError", "np.save")]
        ELSE IF io = "json_fails"
        THEN [fs |-> [fsys EXCEPT ![save_path] = Dir(NpSave(m.data), Truncated)],
              ret |-> Raise("OSError", "json.dump")]
        ELSE [fs |-> [fsys EXCEPT ![save_path] =
                         Dir(NpSave(m.data), JsonDump(m.metadata))],
              ret |-> Return(PyNone)]

load(m, fsys, load_path) ==
    IF ~is_dir(fsys, load_path)
    THEN [self |-> m,
          ret |-> Raise("ValueError", "Grid map directory does not exist")]
    ELSE IF fsys[load_path].npy.kind # "npy"
    THEN [self |-> m, ret |-> Raise("FileNotFoundError", "data.gm.npy")]
    ELSE LET m1 == [m EXCEPT !.data = NpLoad(fsys[load_path].npy)]
         IN  IF fsys[load_path].json.kind = "json"
             THEN [self |-> [m1 EXCEPT !.metadata = JsonLoad(fsys[load_path].json)],
                   ret |-> Return(PyNone)]
             ELSE IF fsys[load_path].json.kind = "nofile"
             THEN [self |-> m1, ret |-> Raise("FileNotFoundError", "metadata.gm.json")]
             ELSE [self |-> m1, ret |-> Raise("JSONDecodeError", "metadata.gm.json")]

(* ------------------------- operations as steps ------------------------ *)
Op(op, args, ret) == [op |-> op, args |-> args, ret |-> ret]

RowArgs == -1 .. MaxRows

ColArgs == -1 .. MaxCols

DefaultOrigin == PyTuple(<<0, 0>>)

Resolutions == {1, 2}

Origins == {PyTuple(<<0, 0>>), PyTuple(<<1, -2>>)}

EmptyFs == [p \in {} |-> NoDir]

DirPaths == {"grid_map_save"}

Names == {"test_grid_map"}

Paths == {SavePath(d, n) : d \in DirPaths, n \in Names}

SetCellAt(rows, cols) ==
    \E row \in rows, col \in cols, cell_type \in CellType :
        LET r == set_cell(g, row, col, cell_type)
        IN  /\ g' = r.self
            /\ last' = Op("set_cell", <<row, col, cell_type>>, r.ret)
            /\ UNCHANGED fs

SetCell == SetCellAt(RowArgs, ColArgs)

GetCell ==
    \E row \in RowArgs, col \in ColArgs :
        /\ last' = Op("get_cell", <<row, col>>, get_cell(g, row, col))
        /\ UNCHANGED <<g, fs>>

IsTraversable ==
    \E row \in RowArgs, col \in ColArgs :
        /\ last' = Op("is_traversable", <<row, col>>, is_traversable(g, row, col))
        /\ UNCHANGED <<g, fs>>

GetAllCellsOfType ==
    \E cell_type \in CellType :
        /\ last' = Op("get_all_cells_of_type", <<cell_type>>,
                      get_all_cells_of_type(g, cell_type))
        /\ UNCHANGED <<g, fs>>

GetAllTraversableCells ==
    /\ last' = Op("get_all_traversable_cells", <<TRAVERSABLE>>,
                  get_all_traversable_cells(g))
    /\ UNCHANGED <<g, fs>>

GetAllCuttableCells ==
    /\ last' = Op("get_all_cuttable_cells", <<CUTTABLE>>, get_all_cuttable_cells(g))
    /\ UNCHANGED <<g, fs>>

GetAllNonTraversableCells ==
    /\ last' = Op("get_all_non_traversable_cells", <<NON_TRAVERSABLE>>,
                  get_all_non_traversable_cells(g))
    /\ UNCHANGED <<g, fs>>

(* ------------- cells: a constructed grid, then cell access ------------ *)
\* the shapes of the grids whose cells are accessed
CellShapes ==
    {rc \in (1 .. MaxRows) \X (1 .. MaxCols) : rc[1] * rc[2] <= MaxCells}

\* what a saved instance m leaves at path
DumpOf(m, path) ==
    [p \in {path} |-> Dir(NpSave(m.data), JsonDump([m.metadata EXCEPT !.name = path[2]]))]

\* the instance is fresh from its constructor, or has loaded the dump of
\* another instance
InitCells ==
    /\ \E rc \in CellShapes, d \in CellType :
           LET m == GridMap_init(rc[1], rc[2], 1, DefaultOrigin, d).value
           IN  \/ g = m
               \/ \E src \in CellShapes, path \in Paths :
                      g = load(m, DumpOf(GridMap_init(src[1], src[2], 1, DefaultOrigin,
                                                      d).value, path), path).self
    /\ fs = EmptyFs
    /\ last = Op("__init__", <<>>, Return(PyNone))

NextCells ==
    \/ SetCell
    \/ GetCell
    \/ IsTraversable
    \/ GetAllCellsOfType
    \/ GetAllTraversableCells
    \/ GetAllCuttableCells
    \/ GetAllNonTraversableCells

SpecCells == InitCells /\ [][NextCells]_vars

\* C1: on every instance, a set_cell(row, col, T) at a valid position makes
\* get_cell(row, col) return T and changes no other cell of data and none of
\* rows, cols, resolution, origin and metadata.
C1_SetThenGet ==
    [][(last'.op = "set_cell" /\ is_valid_position(g, last'.args[1], last'.args[2])) =>
         LET row == last'.args[1]
             col == last'.args[2]
             T   == last'.args[3]
         IN  /\ last'.ret = Return(PyNone)
             /\ get_cell(g', row, col) = Return(T)
             /\ g'.data.shape = g.data.shape
             /\ \A rc \in DOMAIN g.data.cells :
                    rc # <<row, col>> => g'.data.cells[rc] = g.data.cells[rc]
             /\ g'.rows = g.rows
             /\ g'.cols = g.cols
             /\ g'.resolution = g.resolution
             /\ g'.origin = g.origin
             /\ g'.metadata = g.metadata]_vars

\* C2: get_cell, set_cell and is_traversable at a position outside
\* [0,rows) x [0,cols), negative indices included, raise the invalid-position
\* error, and the failing set_cell leaves the instance as it was.
C2_OutOfBounds ==
    [][(/\ last'.op \in {"get_cell", "set_cell", "is_traversable"}
        /\ ~(/\ 0 <= last'.args[1] /\ last'.args[1] < g.rows
             /\ 0 <= last'.args[2] /\ last'.args[2] < g.cols)) =>
         (last'.ret = InvalidPosition /\ g' = g)]_vars

\* a set_cell at a negative row, which numpy alone would have accepted
C2_Witness ==
    /\ last.op = "set_cell"
    /\ last.args[1] = -1
    /\ last.args[2] \in 0 .. g.cols - 1
    /\ last.ret = InvalidPosition

\* the coordinates whose cell equals T, as pairs in row-major order
RECURSIVE CellsEqual(_, _, _)
CellsEqual(m, T, k) ==
    IF k = m.data.shape[1] * m.data.shape[2] THEN <<>>
    ELSE LET rc == <<k \div m.data.shape[2], k % m.data.shape[2]>>
         IN  (IF m.data.cells[rc] = T THEN <<rc>> ELSE <<>>) \o CellsEqual(m, T, k + 1)

\* C6: get_all_cells_of_type(T) and its three specializations return the
\* coordinates (row, col) whose cell equals T, as pairs in row-major order,
\* and nothing when no cell equals T.
C6_AllCellsOfType ==
    last.op \in {"get_all_cells_of_type", "get_all_traversable_cells",
                 "get_all_cuttable_cells", "get_all_non_traversable_cells"} =>
        LET want == CellsEqual(g, last.args[1], 0)
            got  == last.ret.value.items
        IN  /\ last.ret.status = "return"
            /\ Len(got) = Len(want)
            /\ \A i \in 1 .. Len(want) : got[i].items = want[i]

(* ------------- neighbors: a grid, then neighbor queries --------------- *)
NbRowArgs == -2 .. MaxNbRows + 1

NbColArgs == -2 .. MaxNbCols + 1

GetNeighbors ==
    \E row \in NbRowArgs, col \in NbColArgs :
        /\ last' = Op("get_neighbors", <<row, col>>, get_neighbors(g, row, col))
        /\ UNCHANGED <<g, fs>>

GetTraversableNeighbors ==
    \E row \in NbRowArgs, col \in NbColArgs :
        /\ last' = Op("get_traversable_neighbors", <<row, col, TRAVERSABLE>>,
                      get_traversable_neighbors(g, row, col))
        /\ UNCHANGED <<g, fs>>

GetCuttableNeighbors ==
    \E row \in NbRowArgs, col \in NbColArgs :
        /\ last' = Op("get_cuttable_neighbors", <<row, col, CUTTABLE>>,
                      get_cuttable_neighbors(g, row, col))
        /\ UNCHANGED <<g, fs>>

GetNonTraversableNeighbors ==
    \E row \in NbRowArgs, col \in NbColArgs :
        /\ last' = Op("get_non_traversable_neighbors", <<row, col, NON_TRAVERSABLE>>,
                      get_non_traversable_neighbors(g, row, col))
        /\ UNCHANGED <<g, fs>>

\* the grids queried: constructed with a default cell type, one cell
\* possibly set to another type
InitNeighbors ==
    /\ \E rows \in 1 .. MaxNbRows, cols \in 1 .. MaxNbCols, d \in CellType, t \in CellType :
           \E row \in 0 .. rows - 1, col \in 0 .. cols - 1 :
               g = set_cell(GridMap_init(rows, cols, 1, DefaultOrigin, d).value,
                            row, col, t).self
    /\ fs = EmptyFs
    /\ last = Op("__init__", <<>>, Return(PyNone))

\* a query leaves the instance as it is: a behaviour applies one query to
\* the grid Init drew
Constructed == last.op = "__init__"

NextNeighbors ==
    \/ Constructed /\ GetNeighbors
    \/ Constructed /\ GetTraversableNeighbors
    \/ Constructed /\ GetCuttableNeighbors
    \/ Constructed /\ GetNonTraversableNeighbors

SpecNeighbors == InitNeighbors /\ [][NextNeighbors]_vars

MooreOffsets ==
    << <<-1, -1>>, <<-1, 0>>, <<-1, 1>>, <<0, -1>>, <<0, 1>>, <<1, -1>>, <<1, 0>>, <<1, 1>> >>

\* the cells at the eight offsets from (row, col) that lie in the grid, in
\* the order of the offsets
MooreCells(m, row, col) ==
    LET InGrid(p) == 0 <= p[1] /\ p[1] < m.rows /\ 0 <= p[2] /\ p[2] < m.cols
    IN  SelectSeq([i \in 1 .. Len(MooreOffsets) |->
                      <<row + MooreOffsets[i][1], col + MooreOffsets[i][2]>>], InGrid)

\* C4: get_neighbors(r, c) is the list of the in-grid cells among the eight
\* Moore offsets, in the order (-1,-1),(-1,0),(-1,1),(0,-1),(0,1),(1,-1),
\* (1,0),(1,1), without duplicates and without (r, c), whatever the cells hold.
C4_Neighbors ==
    last.op = "get_neighbors" =>
        LET want == MooreCells(g, last.args[1], last.args[2])
            got  == last.ret.value.items
        IN  /\ last.ret.status = "return"
            /\ last.ret.value.kind = "list"
            /\ Len(got) = Len(want)
            /\ \A i \in 1 .. Len(got) : got[i] = PyTuple(want[i])
            /\ \A i, j \in 1 .. Len(got) : i # j => got[i] # got[j]
            /\ \A i \in 1 .. Len(got) : got[i].items # <<last.args[1], last.args[2]>>

\* an interior cell of a grid holding two cell types: all eight neighbors
C4_Witness ==
    /\ last.op = "get_neighbors"
    /\ Len(last.ret.value.items) = Len(MooreOffsets)
    /\ \E p, q \in DOMAIN g.data.cells : g.data.cells[p] # g.data.cells[q]

\* C5: at an in-grid (row, col) with a neighbor, get_traversable_neighbors,
\* get_cuttable_neighbors and get_non_traversable_neighbors return, without
\* failing, the neighbors of get_neighbors(row, col) that hold their type,
\* in the same order.
C5_FilteredNeighbors ==
    (/\ last.op \in {"get_traversable_neighbors", "get_cuttable_neighbors",
                     "get_non_traversable_neighbors"}
     /\ is_valid_position(g, last.args[1], last.args[2])
     /\ get_neighbors(g, last.args[1], last.args[2]).value.items # <<>>) =>
        LET HasType(p) == g.data.cells[p.items] = last.args[3]
        IN  /\ last.ret.status = "return"
            /\ last.ret.value.items =
                   SelectSeq(get_neighbors(g, last.args[1], last.args[2]).value.items,
                             HasType)

(* ----------- geometry: a grid, then coordinate conversions ------------ *)
WorldArgs == -MaxWorld .. MaxWorld

GridToWorld ==
    \E row \in RowArgs, col \in ColArgs :
        /\ last' = Op("grid_to_world", <<row, col>>, grid_to_world(g, row, col))
        /\ UNCHANGED <<g, fs>>

WorldToGrid ==
    \E x \in WorldArgs, y \in WorldArgs :
        /\ last' = Op("world_to_grid", <<x, y>>, world_to_grid(g, x, y))
        /\ UNCHANGED <<g, fs>>

InitGeom ==
    /\ \E rows \in 1 .. MaxRows, cols \in 1 .. MaxCols, resolution \in Resolutions,
          origin \in Origins, d \in CellType :
           g = GridMap_init(rows, cols, resolution, origin, d).value
    /\ fs = EmptyFs
    /\ last = Op("__init__", <<>>, Return(PyNone))

NextGeom ==
    \/ Constructed /\ GridToWorld
    \/ Constructed /\ WorldToGrid

SpecGeom == InitGeom /\ [][NextGeom]_vars

\* C3: world_to_grid of the world point grid_to_world(r, c) of an in-grid
\* cell is (r, c), the row first.
C3_RoundTrip ==
    last.op = "world_to_grid" =>
        \A r \in 0 .. g.rows - 1, c \in 0 .. g.cols - 1 :
            grid_to_world(g, r, c).value.items = last.args =>
                last.ret.value.items = <<r, c>>

(* --------- the instance's life: construct, name, set, save, load ------- *)
\* the (resolution, origin) of the grids that are saved and loaded
Geometries == {<<1, PyTuple(<<0, 0>>)>>, <<2, PyTuple(<<1, -2>>)>>}

\* the shapes of the grids that are saved and loaded
SavedShapes ==
    {rc \in (1 .. MaxSavedCells) \X (1 .. MaxSavedCells) : rc[1] * rc[2] <= MaxSavedCells}

\* the constructor's arguments: the accepted ones, and one refused for each
\* of its three tests
ConstructArgs ==
    {<<rc[1], rc[2], geom[1], geom[2], d>> :
        rc \in SavedShapes, geom \in Geometries, d \in CellType}
    \cup {<<0, 1, 1, DefaultOrigin, NON_TRAVERSABLE>>,
          <<1, 1, 0, DefaultOrigin, NON_TRAVERSABLE>>,
          <<1, 1, 1, PyList(<<0, 0>>), NON_TRAVERSABLE>>}

IoOutcomes == {"ok", "npy_fails", "json_fails"}

\* GridMap(...): a constructor that raises leaves the caller with the
\* instance it had
Construct ==
    \E a \in ConstructArgs :
        /\ LET r == GridMap_init(a[1], a[2], a[3], a[4], a[5])
           IN  IF r.status = "return"
               THEN g' = r.value /\ last' = Op("__init__", <<>>, Return(PyNone))
               ELSE g' = g /\ last' = Op("__init__", <<>>, r)
        /\ UNCHANGED fs

SetSavedCell == SetCellAt(0 .. MaxSavedCells - 1, 0 .. MaxSavedCells - 1)

\* grid_map.metadata['name'] = name
SetName ==
    \E name \in Names \cup {""} :
        /\ g' = [g EXCEPT !.metadata.name = name]
        /\ last' = Op("metadata['name']", <<name>>, Return(PyNone))
        /\ UNCHANGED fs

Save ==
    \E dir_path \in DirPaths, io \in IoOutcomes :
        LET r == save(g, fs, dir_path, io)
        IN  /\ fs' = r.fs
            /\ last' = Op("save", <<dir_path>>, r.ret)
            /\ UNCHANGED g

Load ==
    \E load_path \in Paths :
        LET r == load(g, fs, load_path)
        IN  /\ g' = r.self
            /\ last' = Op("load", <<load_path>>, r.ret)
            /\ UNCHANGED fs

Init ==
    /\ \E a \in ConstructArgs :
           /\ GridMap_init(a[1], a[2], a[3], a[4], a[5]).status = "return"
           /\ g = GridMap_init(a[1], a[2], a[3], a[4], a[5]).value
    /\ fs = [p \in Paths |-> NoDir]
    /\ last = Op("__init__", <<>>, Return(PyNone))

Next ==
    \/ Construct
    \/ SetName
    \/ SetSavedCell
    \/ Save
    \/ Load

Spec == Init /\ [][Next]_vars

\* one instance that is named, set and saved
NextSave ==
    \/ SetName
    \/ SetSavedCell
    \/ Save

SpecSave == Init /\ [][NextSave]_vars

AlreadyExists == Raise("ValueError", "Grid map directory already exists")

\* the grids a fresh instance may be
FreshGrids ==
    { GridMap_init(rows, cols, resolution, origin, d).value :
        rows \in 1 .. MaxRows, cols \in 1 .. MaxCols, resolution \in Resolutions,
        origin \in Origins, d \in CellType }

\* C7: what a successful save wrote, loaded into a fresh instance, gives that
\* instance the data and the metadata (name, description, resolution, origin)
\* of the saved instance.
C7_SaveLoadRoundTrip ==
    (last.op = "save" /\ last.ret.status = "return") =>
        \A fresh \in FreshGrids :
            LET r == load(fresh, fs, SavePath(last.args[1], g.metadata.name))
            IN  /\ r.ret.status = "return"
                /\ r.self.data = g.data
                /\ r.self.metadata = g.metadata

\* C8: a save whose directory dir_path/metadata.name exists raises the
\* already-exists error and leaves the file system as it was.
C8_SaveNoOverwrite ==
    [][(/\ last'.op = "save"
        /\ g.metadata.name # ""
        /\ is_dir(fs, SavePath(last'.args[1], g.metadata.name))) =>
         (last'.ret = AlreadyExists /\ fs' = fs)]_vars

\* a refused save of an instance whose data differ from the dump on disk
C8_Witness ==
    /\ last.op = "save"
    /\ last.ret = AlreadyExists
    /\ LET d == fs[SavePath(last.args[1], g.metadata.name)]
       IN  /\ d.npy.kind = "npy"
           /\ d.json.kind = "json"
           /\ d.npy # NpSave(g.data)

\* C9: a load that raises leaves data and metadata as they were.
C9_FailedLoadNoEffect ==
    [][(last'.op = "load" /\ last'.ret.status = "raise") =>
         (g'.data = g.data /\ g'.metadata = g.metadata)]_vars

\* C10: metadata.resolution and metadata.origin are the instance's resolution
\* and origin, and rows and cols are the shape of data.
C10_FieldsConsistent ==
    /\ g.metadata.resolution = g.resolution
    /\ g.metadata.origin.items = g.origin.items
    /\ g.data.shape = <<g.rows, g.cols>>

=============================================================================
